---------------------------- MODULE Spec2Model ----------------------------
(***************************************************************************)
(* A model of the read-only FAT32 driver of kernel/src/fat32.cpp: the      *)
(* geometry cache (cache_disk_partition), the cluster arithmetic           *)
(* (cluster_lba, read_fat_value, next_cluster), the directory entry        *)
(* predicates, the path resolver (find_cluster_number), the lister (files, *)
(* fat32::ls), fat32::free_size and fat32::read_file.                      *)
(*                                                                         *)
(* The disks are immutable sector-addressed images.  A read of sectors is  *)
(* modelled by what it delivers: the boot sector, the FS information       *)
(* sector, the 32-bit words of the FAT, the 32-byte directory entries or   *)
(* the payload found at the absolute LBA the driver asked for.  Every read *)
(* may fail.  32-bit and 64-bit quantities that can exceed the range of    *)
(* TLC's integers are little-endian sequences of 16-bit limbs.              *)
(***************************************************************************)
EXTENDS Integers, Sequences, FiniteSets, TLC

VARIABLES
    fatv,               \* the three FAT entries of the images that vary
    cached_disk, cached_partition, partition_start, fat_bs, fat_is,
    pc, call, prev, cdp, null_deref,
    search, i, found, end_reached, cluster_number, current_cluster,
    files, directory_cluster, entry, content, read, cluster,
    ret, log

cacheVars == <<cached_disk, cached_partition, partition_start, fat_bs, fat_is>>
fcnVars   == <<search, i, found, end_reached, cluster_number, current_cluster>>
rfVars    == <<directory_cluster, entry, content, read, cluster>>
vars      == <<fatv, cacheVars, pc, call, prev, cdp, null_deref, fcnVars,
               files, rfVars, ret, log>>

---------------------------------------------------------------------------
(* Machine words.                                                          *)

SECTOR  == 512          \* bytes per sector
LIMB    == 65536        \* 2^16
NULL    == [null |-> TRUE]

Min(a, b) == IF a < b THEN a ELSE b

\* a value below 2^31 as a 32-bit word <<low limb, high limb>>
U32(n) == <<n % LIMB, n \div LIMB>>

\* unsigned 32-bit product of a 32-bit word and a small factor (wraps)
Mul32(a, k) ==
    LET p0 == a[1] * k
        p1 == a[2] * k + (p0 \div LIMB)
    IN  <<p0 % LIMB, p1 % LIMB>>

\* uint32_t -> uint64_t conversion (zero extension)
ToU64(a) == <<a[1], a[2], 0, 0>>

\* a & 0x0FFFFFFF of a 32-bit word; the result is below 2^28
Mask28(a) == (a[2] % 4096) * LIMB + a[1]

END_OF_CHAIN == 268435448   \* 0x0FFFFFF8
CORRUPTED    == 268435447   \* 0x0FFFFFF7

---------------------------------------------------------------------------
(* Directory entries (struct cluster_entry) and short names.               *)

SPACE        == 32      \* ' '
DELETED      == 229     \* 0xE5
ATTR_LONG    == 15      \* 0x0F
ATTR_DIR     == 16      \* 0x10
ATTR_HIDDEN  == 1
ATTR_SYSTEM  == 2

Spaces(n) == [k \in 1..n |-> SPACE]

\* the 11-byte field of an 8.3 name: base padded to 8, extension to 3
Pad83(base, ext) ==
    base \o Spaces(8 - Len(base)) \o ext \o Spaces(3 - Len(ext))

Entry(name, attrib, chigh, clow, size) ==
    [name |-> name, attrib |-> attrib, cluster_high |-> chigh,
     cluster_low |-> clow, file_size |-> size]

ZeroEntry    == Entry([k \in 1..11 |-> 0], 0, 0, 0, 0)
DeletedEntry == Entry(<<DELETED>> \o Spaces(10), 32, 0, 0, 0)

\* bit test attrib & bit, for a single-bit mask
HasBit(attrib, bit) == (attrib \div bit) % 2 = 1

entry_used(e)       == e.name[1] # DELETED
end_of_directory(e) == e.name[1] = 0
is_long_name(e)     == e.attrib = ATTR_LONG

RECURSIVE filename_scan(_, _)
filename_scan(filename, s) ==
    IF s > 11 THEN 11
    ELSE IF filename[s] = SPACE THEN s - 1
    ELSE filename_scan(filename, s + 1)

filename_length(filename) == filename_scan(filename, 1)

filename_equals(name, path) ==
    LET length == filename_length(name)
    IN  /\ Len(path) = length
        /\ \A k \in 1..length : path[k] = name[k]

\* entry.cluster_low + (entry.cluster_high << 16)
entry_cluster(e) == e.cluster_low + e.cluster_high * LIMB

---------------------------------------------------------------------------
(* The disks.  An identity is <<disk.uuid, partition.uuid>>; partitions    *)
(* <<1,1>> and <<1,2>> lie on disk 1, partition <<2,1>> on disk 2.  What   *)
(* follows is the content a formatter wrote, addressed by absolute LBA; it *)
(* does not use any of the driver's arithmetic.                            *)

Ids == {<<1, 1>>, <<1, 2>>, <<2, 1>>}

\* partition_descriptor.start
PartStart(id) ==
    CASE id = <<1, 1>> -> 2048
      [] id = <<1, 2>> -> 409600
      [] id = <<2, 1>> -> 63

\* the partition of a disk that holds a sector
PartOf(disk, lba) ==
    IF disk = 2 THEN <<2, 1>>
    ELSE IF lba >= PartStart(<<1, 2>>) THEN <<1, 2>> ELSE <<1, 1>>

\* the boot sector (struct fat_bs_t) of each partition
BootSector(id) ==
    CASE id = <<1, 1>> ->
           [sectors_per_cluster |-> 8, reserved_sectors |-> 32,
            number_of_fat |-> 2, sectors_per_fat_long |-> 100,
            root_directory_cluster_start |-> 2, fs_information_sector |-> 1,
            volume_id |-> 11]
      [] id = <<1, 2>> ->
           [sectors_per_cluster |-> 2, reserved_sectors |-> 32,
            number_of_fat |-> 2, sectors_per_fat_long |-> 100,
            root_directory_cluster_start |-> 2, fs_information_sector |-> 1,
            volume_id |-> 12]
      [] id = <<2, 1>> ->
           [sectors_per_cluster |-> 1, reserved_sectors |-> 16,
            number_of_fat |-> 1, sectors_per_fat_long |-> 600,
            root_directory_cluster_start |-> 2, fs_information_sector |-> 6,
            volume_id |-> 21]

\* the FS information sector (struct fat_is_t) of each partition
FsInfoSector(id) ==
    CASE id = <<1, 1>> -> [free_clusters |-> <<0, 16>>]         \* 0x00100000
      [] id = <<1, 2>> -> [free_clusters |-> <<65535, 65535>>]  \* 0xFFFFFFFF
      [] id = <<2, 1>> -> [free_clusters |-> <<65535, 127>>]    \* 0x007FFFFF

ImgSpc(id)         == BootSector(id).sectors_per_cluster
ImgClusterSize(id) == SECTOR * ImgSpc(id)
ImgFatBegin(id)    == PartStart(id) + BootSector(id).reserved_sectors
ImgDataBegin(id)   ==
    ImgFatBegin(id)
      + BootSector(id).number_of_fat * BootSector(id).sectors_per_fat_long

\* Cluster numbers the images use.  Cl.lo and Cl.lo2 lie in the first
\* cluster-sized block of the FAT of every image; HiCluster lies in the second
\* block of the FAT when a cluster has more than one sector.
Cl == [root |-> 2, dirA |-> 4, dirA2 |-> 5, dirSub |-> 6, dirB |-> 7,
       dirC |-> 8, foo |-> 10, lo |-> 172, lo2 |-> 173]
HiCluster(id) == IF ImgSpc(id) = 1 THEN 300 ELSE 128 * ImgSpc(id) + 44

\* the values a varying FAT entry may hold, as raw 32-bit words
FatWord(id, sym) ==
    CASE sym = "lo"   -> U32(Cl.lo)
      [] sym = "lo2"  -> U32(Cl.lo2)
      [] sym = "hi"   -> U32(HiCluster(id))
      [] sym = "eoc"  -> U32(END_OF_CHAIN)
      [] sym = "eocx" -> <<65535, 65535>>      \* 0xFFFFFFFF
      [] sym = "bad"  -> U32(CORRUPTED)
      [] sym = "badx" -> <<65527, 65535>>      \* 0xFFFFFFF7
      [] sym = "free" -> U32(0)

FatImages ==
    { <<a, b, c>> : a \in {"lo2", "lo", "eocx", "badx", "free"},
                    b \in {"eoc", "lo", "hi"},
                    c \in {"lo", "hi", "eoc", "bad"} }

\* the idx-th 32-bit entry of the FAT of a partition
FatEntry(id, idx) ==
    CASE idx = Cl.lo     -> FatWord(id, fatv[1])
      [] idx = Cl.lo2    -> FatWord(id, fatv[2])
      [] idx = HiCluster(id) -> FatWord(id, fatv[3])
      [] idx = Cl.dirA          -> U32(Cl.dirA2)
      [] idx = Cl.dirB          -> U32(CORRUPTED)
      [] idx \in {Cl.root, Cl.dirA2, Cl.dirSub, Cl.foo} -> U32(END_OF_CHAIN)
      [] idx = Cl.dirC          -> <<65535, 65535>>
      [] idx \in {0, 1}      -> <<65528, 4095>>
      [] OTHER               -> U32(0)

\* short names, as byte strings
NameA     == <<65>>
NameB     == <<66>>
NameC     == <<67>>
NameZ     == <<90>>
NameSUB   == <<83, 85, 66>>
NameFOO   == <<70, 79, 79>>
NameTXT   == <<84, 88, 84>>
NameLO    == <<76, 79>>
NameHI    == <<72, 73>>
NameONE   == <<79, 78, 69>>
NameEMPTY == <<69, 77, 80, 84, 89>>
NameHID   == <<72, 73, 68>>
NameLONGF == <<65, 66, 67, 68, 69, 70, 71, 72>>
NameDOT   == <<46>>
NameLONG  == <<76, 79, 78, 71>>

\* a directory cluster: the given entries, then either the end-of-directory
\* marker and zeroes, or (full) deleted entries up to the end of the cluster
DirCluster(id, entries, full) ==
    [k \in 1..(16 * ImgSpc(id)) |->
        IF k <= Len(entries) THEN entries[k]
        ELSE IF full THEN DeletedEntry ELSE ZeroEntry]

RootEntries(id) ==
    << Entry(Pad83(NameA, <<>>), ATTR_DIR, 0, Cl.dirA, 0),
       Entry(<<65, 0, 66, 0, 67, 0, 68, 0, 69, 0, 70>>, ATTR_LONG, 0, 0, 0),
       DeletedEntry,
       Entry(Pad83(NameFOO, NameTXT), 32, 0, Cl.foo, 5),
       Entry(Pad83(NameB, <<>>), ATTR_DIR, 0, Cl.dirB, 0),
       Entry(Pad83(NameC, <<>>), ATTR_DIR, 0, Cl.dirC, 0),
       Entry(Pad83(NameLO, <<>>), 32, 0, Cl.lo, 2 * ImgClusterSize(id) + 1),
       Entry(Pad83(NameHI, <<>>), 32, 0, HiCluster(id),
             2 * ImgClusterSize(id) + 1),
       Entry(Pad83(NameONE, <<>>), 32, 0, Cl.lo2, ImgClusterSize(id)),
       Entry(Pad83(NameEMPTY, <<>>), 32, 0, 0, 0),
       Entry(Pad83(NameHID, <<>>), 32 + ATTR_HIDDEN + ATTR_SYSTEM, 0,
             Cl.foo, 1),
       Entry(Pad83(NameLONGF, NameTXT), 32, 0, Cl.foo, 5) >>

\* the directory entries of the clusters that hold a directory
DirContent(id, c) ==
    CASE c = Cl.root -> DirCluster(id, RootEntries(id), FALSE)
      [] c = Cl.dirA ->
           DirCluster(id,
             << Entry(Pad83(NameDOT, <<>>), ATTR_DIR, 0, Cl.dirA, 0),
                Entry(Pad83(NameDOT \o NameDOT, <<>>), ATTR_DIR, 0, 0, 0),
                DeletedEntry,
                Entry(Pad83(NameLO, NameTXT), 32, 0, Cl.foo, 3) >>, TRUE)
      [] c = Cl.dirA2 ->
           DirCluster(id,
             << Entry(Pad83(NameSUB, <<>>), ATTR_DIR, 0, Cl.dirSub, 0),
                Entry(Pad83(NameHI, <<>>), 32, 0, Cl.foo, 4) >>, FALSE)
      [] c = Cl.dirB ->
           DirCluster(id,
             << Entry(Pad83(NameONE, <<>>), 32, 0, Cl.foo, 2) >>, TRUE)
      [] c = Cl.dirC ->
           DirCluster(id,
             << Entry(Pad83(NameHID, <<>>), 32, 0, Cl.foo, 2) >>, TRUE)
      [] OTHER -> DirCluster(id, <<>>, FALSE)

---------------------------------------------------------------------------
(* read_sectors(disk, lba, count, buffer), by the type the caller overlays *)
(* on the buffer.  Each function gives the buffer of a successful read.    *)

\* one sector read as struct fat_bs_t
ReadBootSector(disk, lba) == BootSector(PartOf(disk, lba))

\* one sector read as struct fat_is_t; a sector that is not an FS information
\* sector decodes to whatever its bytes are
ReadFsInfoSector(disk, lba) ==
    LET id == PartOf(disk, lba)
    IN  IF lba = PartStart(id) + BootSector(id).fs_information_sector
        THEN FsInfoSector(id)
        ELSE [free_clusters |-> <<lba % LIMB, 0>>]

\* element k (from 0) of `count` sectors read as uint32_t[] from the FAT
ReadFatWord(disk, lba, count, k) ==
    LET id == PartOf(disk, lba)
    IN  FatEntry(id, (lba - ImgFatBegin(id)) * (SECTOR \div 4) + k)

\* `count` sectors read as cluster_entry[]
ReadDirEntries(disk, lba, count) ==
    LET id  == PartOf(disk, lba)
        off == lba - ImgDataBegin(id)
        dir == DirContent(id, off \div ImgSpc(id) + 2)
        skip == (off % ImgSpc(id)) * 16
    IN  [k \in 1..Min(16 * count, Len(dir) - skip) |-> dir[skip + k]]

\* the first n bytes of `count` sectors read as char[]: the payload is named
\* by the place it was read from
ReadBytes(disk, lba, n) == [disk |-> disk, lba |-> lba, len |-> n]

---------------------------------------------------------------------------
(* The driver.                                                             *)

Paths ==
    { <<>>, <<NameA>>, <<NameA, NameSUB>>, <<NameB>>, <<NameC>>, <<NameZ>>,
      <<NameA, NameZ>>, <<NameB, NameZ>>, <<NameC, NameZ>> }

\* the directories read_file is asked to look into
FilePaths == { <<>>, <<NameA>>, <<NameZ>> }

FileNames ==
    { NameFOO \o NameTXT, NameFOO, NameLO, NameHI, NameONE, NameEMPTY,
      NameLONGF \o NameTXT, NameLO \o NameTXT, NameZ }

\* values a read through the null fat_bs pointer may deliver
GarbageWords == {0, 6}

\* the cap on the records the model lets files() accumulate
MaxFiles == 8

\* what was cached when the operation was called (kept until
\* cache_disk_partition has returned)
NoPrev == <<0, 0, FALSE>>

NoCall == [op |-> "none", disk |-> 0, partition |-> 0, start |-> 0,
           path |-> <<>>, file |-> <<>>]

ReadLog(kind, by, lba, ok) ==
    [kind |-> kind, by |-> by, lba |-> lba, ok |-> ok,
     cluster |-> 0, value |-> 0, next |-> 0]

\* cache_bs: the new value of fat_bs
cache_bs(disk, start, ok) ==
    IF ok THEN ReadBootSector(disk, start) ELSE NULL

\* cache_is without its else branch: a failed read leaves the old fat_is
cache_is_keeps_old(disk, start, fs_information_sector, ok) ==
    IF ok THEN ReadFsInfoSector(disk, start + fs_information_sector)
    ELSE fat_is

\* cache_is after fat_bs->fs_information_sector was read: the new fat_is
cache_is(disk, start, fs_information_sector, ok) ==
    IF ok THEN ReadFsInfoSector(disk, start + fs_information_sector) ELSE NULL

cluster_lba(c) ==
    LET fat_begin     == partition_start + fat_bs.reserved_sectors
        cluster_begin == fat_begin
                           + fat_bs.number_of_fat * fat_bs.sectors_per_fat_long
    IN  cluster_begin + (c - 2) * fat_bs.sectors_per_cluster

\* the sector read_fat_value reads the FAT from
fat_sector(c) ==
    LET fat_begin    == partition_start + fat_bs.reserved_sectors
        cluster_size == SECTOR * fat_bs.sectors_per_cluster
    IN  fat_begin + (c * 4) \div cluster_size

read_fat_value(disk, c, ok) ==
    LET cluster_size == SECTOR * fat_bs.sectors_per_cluster
        entry_offset == ((c * 4) % cluster_size) \div 4
    IN  IF ok
        THEN Mask28(ReadFatWord(disk, fat_sector(c),
                                fat_bs.sectors_per_cluster, entry_offset))
        ELSE 0

next_cluster(disk, c, ok) ==
    LET fat_value == read_fat_value(disk, c, ok)
    IN  IF fat_value >= END_OF_CHAIN THEN 0 ELSE fat_value

FatLog(by, c, ok) ==
    [kind |-> "fat", by |-> by, lba |-> fat_sector(c), ok |-> ok,
     cluster |-> c, value |-> read_fat_value(call.disk, c, ok),
     next |-> next_cluster(call.disk, c, ok)]

\* the buffer of a directory cluster read at lba
Buffer(lba) == ReadDirEntries(call.disk, lba, fat_bs.sectors_per_cluster)

\* the least element of a non-empty set of numbers
Least(S) == CHOOSE k \in S : \A j \in S : k <= j

\* the test find_cluster_number (want_dir) and read_file (~want_dir) make of
\* an entry before the end of the directory
entry_matches(e, p, want_dir) ==
    /\ entry_used(e)
    /\ ~is_long_name(e)
    /\ HasBit(e.attrib, ATTR_DIR) = want_dir
    /\ filename_equals(e.name, p)

\* The for loops over a directory cluster of find_cluster_number and of
\* read_file, up to their first break or return: the end of the directory,
\* a matching entry, or neither.
scan_directory(entries, p, want_dir) ==
    LET stops == {k \in 1..Len(entries) :
                    \/ end_of_directory(entries[k])
                    \/ entry_matches(entries[k], p, want_dir)}
    IN  IF stops = {} THEN [kind |-> "none", entry |-> ZeroEntry]
        ELSE IF end_of_directory(entries[Least(stops)])
        THEN [kind |-> "end", entry |-> ZeroEntry]
        ELSE [kind |-> "match", entry |-> entries[Least(stops)]]

\* the disks::file record files() builds of a used entry
file_record(e) ==
    LET directory == HasBit(e.attrib, ATTR_DIR)
    IN  [file_name |-> IF is_long_name(e) THEN NameLONG
                       ELSE SubSeq(e.name, 1, filename_length(e.name)),
         hidden    |-> HasBit(e.attrib, ATTR_HIDDEN),
         system    |-> HasBit(e.attrib, ATTR_SYSTEM),
         directory |-> directory,
         size      |-> IF directory THEN fat_bs.sectors_per_cluster * SECTOR
                       ELSE e.file_size]

\* the for loop of files() over one cluster: the records of the used entries
\* before the end of the directory are appended
list_entries(entries, acc) ==
    LET ends == {k \in 1..Len(entries) : end_of_directory(entries[k])}
        last == IF ends = {} THEN Len(entries) ELSE Least(ends) - 1
        used == SelectSeq(SubSeq(entries, 1, last), entry_used)
    IN  [files       |-> acc \o [k \in 1..Len(used) |-> file_record(used[k])],
         end_reached |-> ends # {}]

\* std::string content(capacity): an empty string
string_with_capacity(capacity) == <<>>

\* the inner loop of read_file without its test read < entry.file_size
bytes_copied_whole_cluster(cluster_size, done, file_size) == cluster_size

\* the bytes the inner loop of read_file copies out of one cluster
bytes_copied(cluster_size, done, file_size) ==
    Min(cluster_size, file_size - done)

---------------------------------------------------------------------------
(* The state machine.  A public operation is called when the driver is     *)
(* idle, runs cache_disk_partition, and then its own body; every loop of   *)
(* the code is taken one iteration at a time.                              *)

Init ==
    /\ fatv \in FatImages
    /\ cached_disk = -1
    /\ cached_partition = -1
    /\ partition_start = 0
    /\ fat_bs = NULL
    /\ fat_is = NULL
    /\ pc = "idle"
    /\ call = NoCall
    /\ prev = NoPrev
    /\ cdp = FALSE
    /\ null_deref = FALSE
    /\ search = <<FALSE, 0>>
    /\ i = 0
    /\ found = FALSE
    /\ end_reached = FALSE
    /\ cluster_number = 0
    /\ current_cluster = 0
    /\ files = <<>>
    /\ directory_cluster = 0
    /\ entry = ZeroEntry
    /\ content = <<>>
    /\ read = 0
    /\ cluster = 0
    /\ ret = <<>>
    /\ log = <<>>

\* a public operation is entered
Call(op, id, path, file) ==
    /\ pc = "idle"
    /\ call' = [op |-> op, disk |-> id[1], partition |-> id[2],
                start |-> PartStart(id), path |-> path, file |-> file]
    /\ pc' = "cache_disk_partition"
    /\ prev' = <<cached_disk, cached_partition, fat_bs # NULL /\ fat_is # NULL>>
    /\ UNCHANGED <<fatv, cacheVars, cdp, null_deref, fcnVars, files, rfVars,
                   ret, log>>

free_size == \E id \in Ids : Call("free_size", id, <<>>, <<>>)

ls == \E id \in Ids, path \in Paths : Call("ls", id, path, <<>>)

read_file ==
    \E id \in Ids, path \in FilePaths, file \in FileNames :
        Call("read_file", id, path, file)

\* the operation returns value
Return(value) ==
    /\ ret' = value
    /\ pc' = "return"

\* the caller has the result; the locals of the operation are gone and only
\* the cache is left
returned ==
    /\ pc = "return"
    /\ pc' = "idle"
    /\ call' = NoCall
    /\ prev' = NoPrev
    /\ cdp' = FALSE
    /\ null_deref' = FALSE
    /\ search' = <<FALSE, 0>>
    /\ i' = 0
    /\ found' = FALSE
    /\ end_reached' = FALSE
    /\ cluster_number' = 0
    /\ current_cluster' = 0
    /\ files' = <<>>
    /\ directory_cluster' = 0
    /\ entry' = ZeroEntry
    /\ content' = <<>>
    /\ read' = 0
    /\ cluster' = 0
    /\ ret' = <<>>
    /\ log' = <<>>
    /\ UNCHANGED <<fatv, cacheVars>>

\* cache_disk_partition, with the outcomes of its two reads.  When the boot
\* sector read fails, cache_is reads fs_information_sector through the null
\* fat_bs: the access faults, or delivers some word.
cache_disk_partition ==
    /\ pc = "cache_disk_partition"
    /\ IF cached_disk # call.disk \/ cached_partition # call.partition
       THEN \E okbs, okis, fault \in BOOLEAN, word \in GarbageWords :
              LET bs   == cache_bs(call.disk, call.start, okbs)
                  fsis == IF bs = NULL THEN word
                          ELSE bs.fs_information_sector
                  boot == ReadLog("boot", "cache_bs", call.start, okbs)
                  info == ReadLog("fsinfo", "cache_is", call.start + fsis,
                                  okis)
              IN  /\ partition_start' = call.start
                  /\ fat_bs' = bs
                  /\ null_deref' = (bs = NULL)
                  /\ IF bs = NULL /\ fault
                     THEN /\ pc' = "fault"
                          /\ log' = log \o <<boot>>
                          /\ UNCHANGED <<fat_is, cached_disk,
                                         cached_partition, cdp>>
                     ELSE /\ fat_is' = cache_is(call.disk, call.start, fsis,
                                                okis)
                          /\ cached_disk' = call.disk
                          /\ cached_partition' = call.partition
                          /\ cdp' = (fat_bs' # NULL /\ fat_is' # NULL)
                          /\ log' = log \o <<boot, info>>
                          /\ pc' = "cached"
       ELSE /\ cdp' = (fat_bs # NULL /\ fat_is # NULL)
            /\ pc' = "cached"
            /\ UNCHANGED <<cacheVars, null_deref, log>>
    /\ UNCHANGED <<fatv, call, prev, fcnVars, files, rfVars, ret>>

free_size_return ==
    /\ pc = "cached"
    /\ call.op = "free_size"
    /\ IF ~cdp
       THEN Return(<<0, 0, 0, 0>>)
       ELSE Return(ToU64(Mul32(Mul32(fat_is.free_clusters,
                                     fat_bs.sectors_per_cluster), SECTOR)))
    /\ prev' = NoPrev
    /\ UNCHANGED <<fatv, cacheVars, call, cdp, null_deref, fcnVars, files,
                   rfVars, log>>

\* ls and read_file after cache_disk_partition
enter_body ==
    /\ pc = "cached"
    /\ call.op \in {"ls", "read_file"}
    /\ IF ~cdp
       THEN Return(<<>>)
       ELSE pc' = "find_cluster_number" /\ UNCHANGED ret
    /\ prev' = NoPrev
    /\ UNCHANGED <<fatv, cacheVars, call, cdp, null_deref, fcnVars, files,
                   rfVars, log>>

\* find_cluster_number up to its for loop over the path
fcn_begin ==
    /\ pc = "find_cluster_number"
    /\ IF call.path = <<>>
       THEN /\ search' = <<TRUE, fat_bs.root_directory_cluster_start>>
            /\ pc' = "fcn_return"
            /\ UNCHANGED <<i, found, end_reached, cluster_number,
                           current_cluster, log>>
       ELSE \E ok \in BOOLEAN :
              LET cn   == fat_bs.root_directory_cluster_start
                  addr == cluster_lba(cn)
              IN  /\ cluster_number' = cn
                  /\ log' = Append(log, ReadLog("dir", "find_cluster_number",
                                                addr, ok))
                  /\ IF ok
                     THEN /\ current_cluster' = addr
                          /\ i' = 1
                          /\ found' = FALSE
                          /\ end_reached' = FALSE
                          /\ pc' = "fcn_scan"
                          /\ UNCHANGED search
                     ELSE /\ search' = <<FALSE, 0>>
                          /\ pc' = "fcn_return"
                          /\ UNCHANGED <<i, found, end_reached,
                                         current_cluster>>
    /\ UNCHANGED <<fatv, cacheVars, call, prev, cdp, null_deref, files, rfVars,
                   ret>>

\* the for loop over current_cluster inside while(!found)
fcn_scan ==
    /\ pc = "fcn_scan"
    /\ LET r == scan_directory(Buffer(current_cluster), call.path[i], TRUE)
       IN  CASE r.kind = "end" ->
                  /\ end_reached' = TRUE
                  /\ pc' = "fcn_next"
                  /\ UNCHANGED <<search, i, found, cluster_number,
                                 current_cluster, log>>
             [] r.kind = "none" ->
                  /\ pc' = "fcn_next"
                  /\ UNCHANGED <<search, i, found, end_reached,
                                 cluster_number, current_cluster, log>>
             [] r.kind = "match" ->
                  LET cn == entry_cluster(r.entry)
                  IN  /\ cluster_number' = cn
                      /\ IF i = Len(call.path)
                         THEN /\ search' = <<TRUE, cn>>
                              /\ pc' = "fcn_return"
                              /\ UNCHANGED <<i, found, end_reached,
                                             current_cluster, log>>
                         ELSE \E ok \in BOOLEAN :
                                /\ log' = Append(log,
                                     ReadLog("dir", "find_cluster_number",
                                             cluster_lba(cn), ok))
                                /\ IF ok
                                   THEN /\ current_cluster' = cluster_lba(cn)
                                        /\ found' = TRUE
                                        /\ pc' = "fcn_next"
                                        /\ UNCHANGED search
                                   ELSE /\ search' = <<FALSE, 0>>
                                        /\ pc' = "fcn_return"
                                        /\ UNCHANGED <<found, current_cluster>>
                                /\ UNCHANGED <<i, end_reached>>
    /\ UNCHANGED <<fatv, cacheVars, call, prev, cdp, null_deref, files, rfVars,
                   ret>>

\* after the for loop: the rest of the body of while(!found), the loop's
\* condition and, when it is left, the step of the for loop over the path
fcn_next ==
    /\ pc = "fcn_next"
    /\ IF ~end_reached /\ ~found
       THEN \E okfat, ok \in BOOLEAN :
              LET next == next_cluster(call.disk, cluster_number, okfat)
                  fat  == FatLog("find_cluster_number", cluster_number, okfat)
              IN  IF next = 0 \/ next = CORRUPTED
                  THEN /\ search' = <<FALSE, 0>>
                       /\ pc' = "fcn_return"
                       /\ log' = Append(log, fat)
                       /\ UNCHANGED <<i, found, end_reached, cluster_number,
                                      current_cluster>>
                  ELSE /\ cluster_number' = next
                       /\ log' = log \o
                            <<fat, ReadLog("dir", "find_cluster_number",
                                           cluster_lba(next), ok)>>
                       /\ IF ok
                          THEN /\ current_cluster' = cluster_lba(next)
                               /\ pc' = "fcn_scan"
                               /\ UNCHANGED search
                          ELSE /\ search' = <<FALSE, 0>>
                               /\ pc' = "fcn_return"
                               /\ UNCHANGED current_cluster
                       /\ UNCHANGED <<i, found, end_reached>>
       ELSE IF found
       THEN \* while(!found) is left; if(!found) does not return; ++i
            IF i + 1 > Len(call.path)
            THEN /\ search' = <<FALSE, 0>>
                 /\ pc' = "fcn_return"
                 /\ UNCHANGED <<i, found, end_reached, cluster_number,
                                current_cluster, log>>
            ELSE /\ i' = i + 1
                 /\ found' = FALSE
                 /\ end_reached' = FALSE
                 /\ pc' = "fcn_scan"
                 /\ UNCHANGED <<search, cluster_number, current_cluster, log>>
       ELSE \* end_reached and not found: while(!found) goes round again
            /\ pc' = "fcn_scan"
            /\ UNCHANGED <<search, i, found, end_reached, cluster_number,
                           current_cluster, log>>
    /\ UNCHANGED <<fatv, cacheVars, call, prev, cdp, null_deref, files, rfVars,
                   ret>>

\* files() after find_cluster_number
files_begin ==
    /\ pc = "fcn_return"
    /\ call.op = "ls"
    /\ IF ~search[1]
       THEN Return(<<>>) /\ UNCHANGED end_reached
       ELSE /\ end_reached' = FALSE
            /\ pc' = "files_loop"
            /\ UNCHANGED ret
    /\ files' = <<>>
    /\ UNCHANGED <<fatv, cacheVars, call, prev, cdp, null_deref, search, i, found,
                   cluster_number, current_cluster, rfVars, log>>

\* one iteration of while(!end_reached) of files(); cluster_number is
\* declared inside the loop and starts every iteration at the cluster
\* find_cluster_number returned
files_iter ==
    /\ pc = "files_loop"
    /\ Len(files) < MaxFiles
    /\ \E ok, okfat \in BOOLEAN :
         LET cn   == search[2]
             addr == cluster_lba(cn)
             rd   == ReadLog("dir", "files", addr, ok)
             r    == list_entries(Buffer(addr), files)
             next == next_cluster(call.disk, cn, okfat)
             fat  == FatLog("files", cn, okfat)
         IN  IF ~ok
             THEN /\ Return(files)
                  /\ log' = Append(log, rd)
                  /\ UNCHANGED <<files, end_reached, cluster_number>>
             ELSE /\ files' = r.files
                  /\ end_reached' = r.end_reached
                  /\ IF r.end_reached
                     THEN /\ Return(r.files)
                          /\ log' = Append(log, rd)
                          /\ UNCHANGED cluster_number
                     ELSE /\ log' = log \o <<rd, fat>>
                          /\ IF next = 0 \/ next = CORRUPTED
                             THEN Return(r.files) /\ UNCHANGED cluster_number
                             ELSE /\ cluster_number' = next
                                  /\ UNCHANGED <<pc, ret>>
    /\ UNCHANGED <<fatv, cacheVars, call, prev, cdp, null_deref, search, i, found,
                   current_cluster, rfVars>>

\* find_directory_cluster after find_cluster_number, and read_file's test of
\* its result
find_directory_cluster ==
    /\ pc = "fcn_return"
    /\ call.op = "read_file"
    /\ IF search[1]
       THEN \E ok \in BOOLEAN :
              /\ log' = Append(log, ReadLog("dir", "find_directory_cluster",
                                            cluster_lba(search[2]), ok))
              /\ IF ok
                 THEN /\ directory_cluster' = cluster_lba(search[2])
                      /\ pc' = "read_file_scan"
                      /\ UNCHANGED ret
                 ELSE Return(<<>>) /\ UNCHANGED directory_cluster
       ELSE Return(<<>>) /\ UNCHANGED <<directory_cluster, log>>
    /\ UNCHANGED <<fatv, cacheVars, call, prev, cdp, null_deref, fcnVars,
                   files, entry, content, read, cluster>>

\* the for loop of read_file over directory_cluster, up to while(read < ...)
read_file_scan ==
    /\ pc = "read_file_scan"
    /\ LET r == scan_directory(Buffer(directory_cluster), call.file, FALSE)
       IN  IF r.kind = "match"
           THEN /\ entry' = r.entry
                /\ content' = string_with_capacity(r.entry.file_size + 1)
                /\ cluster' = entry_cluster(r.entry)
                /\ read' = 0
                /\ pc' = "read_file_loop"
                /\ UNCHANGED ret
           ELSE Return(<<>>) /\ UNCHANGED <<entry, content, cluster, read>>
    /\ UNCHANGED <<fatv, cacheVars, call, prev, cdp, null_deref, fcnVars,
                   files, directory_cluster, log>>

\* the condition of while(read < entry.file_size) and one iteration of it
read_file_iter ==
    /\ pc = "read_file_loop"
    /\ IF read >= entry.file_size
       THEN Return(content) /\ UNCHANGED <<content, read, cluster, log>>
       ELSE \E ok, okfat \in BOOLEAN :
              LET cluster_size == SECTOR * fat_bs.sectors_per_cluster
                  addr == cluster_lba(cluster)
                  rd   == ReadLog("data", "read_file", addr, ok)
                  n    == bytes_copied(cluster_size, read, entry.file_size)
                  text == Append(content, ReadBytes(call.disk, addr, n))
                  next == next_cluster(call.disk, cluster, okfat)
                  fat  == FatLog("read_file", cluster, okfat)
              IN  IF ~ok
                  THEN /\ Return(content)
                       /\ log' = Append(log, rd)
                       /\ UNCHANGED <<content, read, cluster>>
                  ELSE /\ content' = text
                       /\ read' = read + n
                       /\ IF read + n < entry.file_size
                          THEN /\ log' = log \o <<rd, fat>>
                               /\ IF next = 0 \/ next = CORRUPTED
                                  THEN Return(text) /\ UNCHANGED cluster
                                  ELSE /\ cluster' = next
                                       /\ UNCHANGED <<pc, ret>>
                          ELSE /\ log' = Append(log, rd)
                               /\ UNCHANGED <<pc, ret, cluster>>
    /\ UNCHANGED <<fatv, cacheVars, call, prev, cdp, null_deref, fcnVars,
                   files, directory_cluster, entry>>

Next ==
    \/ free_size
    \/ ls
    \/ read_file
    \/ cache_disk_partition
    \/ free_size_return
    \/ enter_body
    \/ fcn_begin
    \/ fcn_scan
    \/ fcn_next
    \/ files_begin
    \/ files_iter
    \/ find_directory_cluster
    \/ read_file_scan
    \/ read_file_iter
    \/ returned

Spec == Init /\ [][Next]_vars

---------------------------------------------------------------------------
(* What the properties speak of, read off the disk images alone.           *)

\* the bound on the length of the FAT chains the expected values follow
MaxChain == 4

CallId == <<call.disk, call.partition>>

NoReadFailed == \A k \in 1..Len(log) : log[k].ok

IsPrefix(a, b) == Len(a) <= Len(b) /\ SubSeq(b, 1, Len(a)) = a

\* the low 28 bits of the 4 bytes at byte offset 4*c of the FAT region
FatValueOnDisk(id, c) ==
    Mask28(ReadFatWord(id[1], ImgFatBegin(id) + (4 * c) \div SECTOR, 1,
                       ((4 * c) % SECTOR) \div 4))

\* the first sector of a cluster
ClusterOnDisk(id, c) == ImgDataBegin(id) + (c - 2) * ImgSpc(id)

\* the FAT chain from cluster c: at most n clusters, ended by a free entry,
\* the corruption sentinel or an end-of-chain value
RECURSIVE ChainOnDisk(_, _, _)
ChainOnDisk(id, c, n) ==
    IF n = 0 THEN <<>>
    ELSE LET v == FatValueOnDisk(id, c)
         IN  <<c>> \o (IF v = 0 \/ v >= CORRUPTED THEN <<>>
                       ELSE ChainOnDisk(id, v, n - 1))

\* the 32-byte entries of a directory cluster
EntriesOnDisk(id, c) == ReadDirEntries(id[1], ClusterOnDisk(id, c), ImgSpc(id))

HasEnd(es) == \E k \in 1..Len(es) : es[k].name[1] = 0

\* the entries of a cluster before its end-of-directory marker
BeforeEnd(es) ==
    IF HasEnd(es)
    THEN SubSeq(es, 1, Least({k \in 1..Len(es) : es[k].name[1] = 0}) - 1)
    ELSE es

\* one record per used entry of a cluster, in on-disk order
RecordsOf(es) ==
    LET used == SelectSeq(BeforeEnd(es), LAMBDA e : e.name[1] # DELETED)
    IN  [k \in 1..Len(used) |-> file_record(used[k])]

\* the listing of a directory chain, from its k-th cluster on
RECURSIVE ListingFrom(_, _, _)
ListingFrom(id, chain, k) ==
    IF k > Len(chain) THEN <<>>
    ELSE RecordsOf(EntriesOnDisk(id, chain[k]))
           \o (IF HasEnd(EntriesOnDisk(id, chain[k])) THEN <<>>
               ELSE ListingFrom(id, chain, k + 1))

ExpectedListing == ListingFrom(CallId, ChainOnDisk(CallId, search[2], MaxChain), 1)

\* the clusters a file of size bytes takes
ClustersNeeded(id, size) ==
    (size + ImgClusterSize(id) - 1) \div ImgClusterSize(id)

\* the first size bytes of the payloads of a chain
ContentOf(id, chain, size) ==
    [k \in 1..ClustersNeeded(id, size) |->
        ReadBytes(id[1], ClusterOnDisk(id, chain[k]),
                  Min(ImgClusterSize(id), size - (k - 1) * ImgClusterSize(id)))]

RECURSIVE ContentLen(_)
ContentLen(c) == IF c = <<>> THEN 0 ELSE Head(c).len + ContentLen(Tail(c))

\* the 11 bytes of a name field without the padding
Unpad(name) == SelectSeq(name, LAMBDA c : c # SPACE)

\* 64-bit product of a 64-bit word (four limbs) and a small factor
Mul64(a, k) ==
    LET p1 == a[1] * k
        p2 == a[2] * k + (p1 \div LIMB)
        p3 == a[3] * k + (p2 \div LIMB)
        p4 == a[4] * k + (p3 \div LIMB)
    IN  <<p1 % LIMB, p2 % LIMB, p3 % LIMB, p4 % LIMB>>

\* read_file has matched a directory entry
Matched == call.op = "read_file" /\ pc \in {"read_file_loop", "return"}
             /\ entry # ZeroEntry

---------------------------------------------------------------------------
(* Properties of the driver.                                               *)

\* C1: when, with every read succeeding, the scan of the current directory
\* for a path segment reaches the end-of-directory marker before a matching
\* directory entry, find_cluster_number returns "not found": it does not go
\* on scanning.
C1_NotFoundAtEndOfDirectory ==
    [][ (pc = "fcn_next" /\ end_reached /\ ~found /\ NoReadFailed)
          => (pc' = "fcn_return" /\ search' = <<FALSE, 0>>) ]_vars

\* C2: with every read succeeding, the records ls has accumulated are at
\* every moment a prefix of the listing of the resolved directory's chain
\* (one record per used entry, cluster by cluster in chain order, up to the
\* first end-of-directory marker or the end of the chain), and ls returns
\* that listing.
C2_ListsWholeChainOnce ==
    (call.op = "ls" /\ pc \in {"files_loop", "return"} /\ search[1]
       /\ NoReadFailed)
      => /\ IsPrefix(files, ExpectedListing)
         /\ pc = "return" => ret = ExpectedListing

\* C3: when the boot-sector read of cache_disk_partition fails, no
\* FS-information-sector read is attempted, no field is read through the
\* null fat_bs, cache_disk_partition returns false and the operation returns
\* its benign result.
C3_BootReadFailureIsBenign ==
    (\E k \in 1..Len(log) : log[k].kind = "boot" /\ ~log[k].ok)
      => /\ ~null_deref
         /\ pc # "fault"
         /\ \A k \in 1..Len(log) : log[k].kind # "fsinfo"
         /\ ~cdp
         /\ pc = "return" =>
              ret = IF call.op = "free_size" THEN <<0, 0, 0, 0>> ELSE <<>>

\* C4: with both sectors readable, free_size returns the 64-bit product
\* free_clusters * sectors_per_cluster * 512, not truncated to 32 bits.
C4_FreeSizeIsFullProduct ==
    (call.op = "free_size" /\ pc = "return" /\ cdp)
      => ret = Mul64(Mul64(ToU64(FsInfoSector(CallId).free_clusters),
                           ImgSpc(CallId)), SECTOR)

\* C5: when read_file has matched an entry of size S and start cluster c0,
\* every read succeeded and the FAT chain from c0 has at least
\* ceil(S / cluster_size) clusters, read_file returns the first S bytes of
\* the payloads of the chain's clusters, in chain order.
C5_ContentIsChainPrefix ==
    LET need  == ClustersNeeded(CallId, entry.file_size)
        chain == ChainOnDisk(CallId, entry_cluster(entry), need)
    IN  (Matched /\ pc = "return" /\ NoReadFailed /\ Len(chain) = need)
          => /\ ret = ContentOf(CallId, chain, entry.file_size)
             /\ ContentLen(ret) = entry.file_size

\* C6: with every read succeeding and the directory resolved, read_file
\* matches the file whose 11-byte name field without its padding is the
\* name asked for (so "FOOTXT" in the root returns the 5 bytes of cluster
\* 10), and matches no entry whose unpadded field differs from that name.
C6_ShortNameMatch ==
    LET es    == BeforeEnd(EntriesOnDisk(CallId, search[2]))
        named == {k \in 1..Len(es) :
                    /\ es[k].name[1] # DELETED
                    /\ es[k].attrib # ATTR_LONG
                    /\ ~HasBit(es[k].attrib, ATTR_DIR)
                    /\ Unpad(es[k].name) = call.file}
    IN  (call.op = "read_file" /\ pc = "return" /\ search[1] /\ NoReadFailed)
          => /\ named # {} => entry = es[Least(named)]
             /\ entry # ZeroEntry => Unpad(entry.name) = call.file
             /\ (call.path = <<>> /\ call.file = NameFOO \o NameTXT) =>
                  ret = <<ReadBytes(call.disk, ClusterOnDisk(CallId, Cl.foo), 5)>>

\* C7: in ls and read_file, a successful FAT read for a cluster whose masked
\* FAT entry is 0x0FFFFFF7 is the last read of the operation, and the
\* operation returns what it had accumulated.
C7_StopsAtCorruptionSentinel ==
    \A k \in 1..Len(log) :
      (/\ log[k].kind = "fat"
       /\ log[k].by \in {"files", "read_file"}
       /\ log[k].ok
       /\ FatValueOnDisk(CallId, log[k].cluster) = CORRUPTED)
        => /\ k = Len(log)
           /\ pc = "return"
           /\ ret = IF call.op = "ls" THEN files ELSE content

\* C8: a successful read_fat_value(c) is the low 28 bits of the 32-bit entry
\* at byte offset 4*c of the FAT region, and next_cluster(c) is 0 when that
\* value is at least 0x0FFFFFF8 and that value otherwise.
C8_FatValueIsEntryOfCluster ==
    \A k \in 1..Len(log) :
      (log[k].kind = "fat" /\ log[k].ok)
        => LET v == FatValueOnDisk(CallId, log[k].cluster)
           IN  /\ log[k].value = v
               /\ log[k].next = IF v >= END_OF_CHAIN THEN 0 ELSE v

\* C9: whenever cache_disk_partition has returned true for (d, p), the
\* cached boot sector, FS information sector and partition_start are those
\* of (d, p); and when (d, p) differs from the pair cached before the call,
\* both sectors were read from (d, p) in this call.
C9_CacheBelongsToCaller ==
    (pc \notin {"idle", "cache_disk_partition", "fault"} /\ cdp)
      => /\ fat_bs = BootSector(CallId)
         /\ fat_is = FsInfoSector(CallId)
         /\ partition_start = PartStart(CallId)
         /\ (pc = "cached" /\ <<prev[1], prev[2]>> # CallId) =>
              /\ Len(log) = 2
              /\ log[1].kind = "boot" /\ log[1].ok
              /\ log[1].lba = PartStart(CallId)
              /\ log[2].kind = "fsinfo" /\ log[2].ok
              /\ log[2].lba = PartStart(CallId)
                                + BootSector(CallId).fs_information_sector

\* C9's case: a pair with readable sectors is cached right after another
\* pair was cached and valid
C9_Witness ==
    /\ pc = "cached"
    /\ cdp
    /\ prev[3]
    /\ <<prev[1], prev[2]>> # CallId

\* C10: once read_file has matched an entry, its content loop issues at most
\* ceil(file_size / cluster_size) data-cluster reads, each successful one
\* appending min(cluster_size, remaining) > 0 bytes, and neither the content
\* nor the result exceeds file_size bytes, whatever the FAT holds.
C10_ContentLoopBounded ==
    Matched =>
      LET size  == entry.file_size
          reads == SelectSeq(log, LAMBDA r : r.kind = "data")
      IN  /\ Len(reads) <= ClustersNeeded(CallId, size)
          /\ read = ContentLen(content)
          /\ read <= size
          /\ \A k \in 1..Len(content) :
               /\ content[k].len > 0
               /\ content[k].len =
                    Min(ImgClusterSize(CallId),
                        size - (k - 1) * ImgClusterSize(CallId))
          /\ pc = "return" => ContentLen(ret) <= size

\* C10's case: a file of three clusters is read to its end along a FAT chain
\* that loops back to a cluster already read
C10_Witness ==
    /\ Matched
    /\ pc = "return"
    /\ Len(ret) = 3
    /\ ContentLen(ret) = entry.file_size
    /\ \E j, k \in 1..3 : j < k /\ ret[j].lba = ret[k].lba

===========================================================================
